---- MODULE Spec2Model ----
(***************************************************************************)
(* Real-time relay and device-session subsystem of pothole-edge-ai:        *)
(* the Socket.IO handlers of the backend server, the HTTP fallback route   *)
(* POST /api/live/stream and the detection persistence loop of the         *)
(* liveStream handler.                                                     *)
(***************************************************************************)
EXTENDS Integers, Sequences, FiniteSets, TLC

\* ------------------------------------------------------------- bounds
MaxFrame == 2
MaxDets == 2
MaxTasks == 2
MaxStore == 2
MaxSuffix == 2
MaxTime == 1
MaxPieces == 3
MaxCalls == 2
MaxForwards == 2
MaxTicket == 2
MaxEvents == 4
MaxBatch == 30

\* ------------------------------------------------- program constants
\* maxHttpBufferSize: 1e7 (bytes) of the Socket.IO server
MaxHttpBufferSize == 10000000
\* express.json({ limit: '50mb' }) = 50 * 1024 * 1024 bytes
JsonLimit == 52428800
\* the liveness window of GET /api/live/devices, in milliseconds
LivenessWindow == 30000
\* the length the viewer hook cuts its detection list to: slice(0, 50)
LogLimit == 50

\* ------------------------------------------------------------ domains
\* the Socket.IO connections of a run; each id is used for one connection
Conns == {1, 2, 3}
DeviceIds == {"d1", "d2"}
\* the JavaScript value undefined (a missing field, an unset property)
Undefined == "undefined"
Keys == DeviceIds \cup {Undefined}
WatchNames == DeviceIds \cup {"all"}
Frames == 1..MaxFrame
\* payload sizes in bytes: 1 MB, 11 MB, 60 MB
FrameSizes == {1000000, 11000000, 60000000}
Suffixes == 1..MaxSuffix
\* activeDevices entries created by the HTTP route carry no socketId
NoSocket == 0
NoStatus == "none"

TypeEnum == {"Severe Pothole", "Deep Pothole", "Minor Pothole", "Asphalt Crack",
             "Manhole Depression", "Road Edge Erosion", "Surface Damage",
             "Water Damage", "Minor Surface Damage", "Surface Cracks"}
SeverityEnum == {"low", "medium", "high"}

\* TYPE_MAPPING of the model file
TypeMapping ==
    [l \in {"Pothole", "pothole", "Crack", "crack", "Damage", "damage"} |->
        CASE l \in {"Pothole", "pothole"} -> "Severe Pothole"
          [] l \in {"Crack", "crack"} -> "Asphalt Crack"
          [] l \in {"Damage", "damage"} -> "Surface Damage"]

\* a detection without confidence field
NoConfidence == -1

\* the detections a producer embeds in its frames
DetPool == << [type |-> "Deep Pothole", severity |-> "high", confidence |-> 91],
              [type |-> "Asphalt Crack", severity |-> Undefined, confidence |-> 0] >>

\* data.detections: absent, or the first n detections of the pool
DetLists == {SubSeq(DetPool, 1, n) : n \in 0..(IF MaxDets < Len(DetPool) THEN MaxDets ELSE Len(DetPool))}

VARIABLES
    conn,            \* conn[c]: "new" | "open" | "closed" (one Socket.IO socket each)
    socketDeviceId,  \* socket.deviceId
    rooms,           \* rooms the socket has joined: <<"device", d>>, <<"watch", w>>
    activeDevices,   \* Map deviceId -> {socketId, connectedAt, lastSeen, status}
    latestFrames,    \* Map deviceId -> {...data, receivedAt}
    now,             \* the clock read by new Date() / Date.now()
    tasks,           \* liveStream handlers suspended at `await detectionRecord.save()`
    store,           \* the PotholeDetection collection
    emitted,         \* the messages sent by the handler that ran last, in order
    op,              \* the handler that ran last and the message it handled
    response,        \* the device list answered by the request that ran last
    streams,         \* the open GET /api/live/events/:deviceId responses
    written,         \* the events written to the open event streams by the last handler
    mongo,           \* process.env.MONGODB_URI, the results of sanitizeURI, the URI connected to
    tickets,         \* the RepairTicket collection
    forwards,        \* POST /api/detections/:id/forward requests suspended at an await
    liveFrame,       \* the liveFrame state of the useSocket hook of one client
    liveDetections   \* the liveDetections state of the useSocket hook of one client

vars == <<conn, socketDeviceId, rooms, activeDevices, latestFrames, now, tasks, store,
          emitted, op, response, streams, written, mongo, tickets, forwards, liveFrame, liveDetections>>

\* ------------------------------------------------------------ helpers
\* Map.prototype.has / set / delete
Has(m, k) == k \in DOMAIN m
\* faulty variant: a key that is present keeps its value
MapSet_IfAbsent(m, k, v) ==
    [x \in (DOMAIN m) \cup {k} |-> IF x = k /\ x \notin DOMAIN m THEN v ELSE m[x]]

\* faulty variant: every key of the map is given the value
MapSet_All(m, k, v) == [x \in (DOMAIN m) \cup {k} |-> v]

MapSet(m, k, v) == [x \in (DOMAIN m) \cup {k} |-> IF x = k THEN v ELSE m[x]]
\* faulty variant: the key is not removed
MapDelete_Keep(m, k) == m

MapDelete(m, k) == [x \in (DOMAIN m) \ {k} |-> m[x]]

\* faulty variant: a socket that has disconnected still counts as connected
Open_EverConnected == {c \in Conns : conn[c] # "new"}

Open == {c \in Conns : conn[c] = "open"}
\* io.to(room): the connected sockets that joined the room
InRoom(r) == {c \in Open : r \in rooms[c]}

\* one emit call: the event name, the sockets it is sent to, the device the
\* payload is about and the payload's frame (0: the payload is no frame); the
\* detections and dbIds of a 'liveDetections' payload
Msg(event, to, dev, frame) ==
    [event |-> event, to |-> to, dev |-> dev, frame |-> frame,
     detections |-> << >>, dbIds |-> << >>]

DetectionsMsg(to, dev, frame, dets, ids) ==
    [event |-> "liveDetections", to |-> to, dev |-> dev, frame |-> frame,
     detections |-> dets, dbIds |-> ids]

\* data.deviceId || socket.deviceId
Resolve(c, data) == IF data.deviceId # Undefined THEN data.deviceId ELSE socketDeviceId[c]

\* the handler that ran: its name, its socket (0: an HTTP request, a save), the
\* device identifier it worked with, the frame and the size of its message
Op(name, c, dev, frame, size) ==
    [name |-> name, conn |-> c, dev |-> dev, frame |-> frame, size |-> size]

Touch(m, k) == IF Has(m, k) THEN [m EXCEPT ![k].lastSeen = now] ELSE m

\* the handler that ran last answered no device list
NoResponse == << "none" >>

\* useState(null) of liveFrame
NoFrame == [frame |-> 0, count |-> 0]

\* io.emit and io.to(room).emit hand the packet to the adapter, which sends it
\* to client sockets; the listeners added with io.on are called for the events
\* the server namespace raises on itself ('connection'), not for emitted packets
ServerEvents == {"connection"}

LocalDispatch(msgs) == {i \in 1..Len(msgs) : msgs[i].event \in ServerEvents}

\* the SSE event name under which a listener of GET /events/:deviceId writes
SseEventOf(event) ==
    CASE event = "liveStream" -> "liveStream"
      [] event = "liveDetections" -> "detection"
      [] event = "deviceStatus" -> "status"
      [] OTHER -> "none"

\* data.deviceId === deviceId || !deviceId || deviceId === 'all'
SseFilter(param, dev) == dev = param \/ param = "" \/ param = "all"

\* streamHandler / detectionHandler / statusHandler of every open stream, run
\* for the events dispatched to the listeners of io
SseWrites(ss, msgs) ==
    {[stream |-> s, event |-> SseEventOf(msgs[i].event), dev |-> msgs[i].dev,
      frame |-> msgs[i].frame, idx |-> i] :
        <<s, i>> \in {p \in (DOMAIN ss) \X LocalDispatch(msgs) :
                        /\ SseEventOf(msgs[p[2]].event) # "none"
                        /\ SseFilter(ss[p[1]], msgs[p[2]].dev)}}

\* ---------------------------------------------------------------- Init
Init ==
    /\ conn = [c \in Conns |-> "new"]
    /\ socketDeviceId = [c \in Conns |-> Undefined]
    /\ rooms = [c \in Conns |-> {}]
    /\ activeDevices = << >>
    /\ latestFrames = << >>
    /\ now = 0
    /\ tasks = << >>
    /\ store = {}
    /\ emitted = << >>
    /\ op = Op("init", 0, Undefined, 0, 0)
    /\ response = NoResponse
    /\ streams = << >>
    /\ written = {}
    /\ mongo = [env |-> << >>, outs |-> << >>, connected |-> << >>]
    /\ tickets = {}
    /\ forwards = << >>
    /\ liveFrame = NoFrame
    /\ liveDetections = << >>

\* ------------------------------------------------------------- actions
\* io.on('connection'): the handlers are installed and 'connected' is sent
Connect(c) ==
    /\ conn[c] = "new"
    /\ conn' = [conn EXCEPT ![c] = "open"]
    /\ emitted' = << Msg("connected", {c}, Undefined, 0) >>
    /\ op' = Op("connect", c, Undefined, 0, 0)
    /\ UNCHANGED mongo
    /\ UNCHANGED <<tickets, forwards, liveFrame, liveDetections>>
    /\ response' = NoResponse
    /\ written' = SseWrites(streams, emitted')
    /\ UNCHANGED streams
    /\ UNCHANGED <<socketDeviceId, rooms, activeDevices, latestFrames, now, tasks, store>>

\* faulty variant: the session is stored without the socket that registered it
RegisteredSession_NoSocket(c) ==
    [socketId |-> NoSocket, connectedAt |-> now, lastSeen |-> now, status |-> NoStatus]

\* socket.on('registerDevice')
RegisteredSession(c) ==
    [socketId |-> c, connectedAt |-> now, lastSeen |-> now, status |-> NoStatus]

\* faulty variant: the notification is sent with socket.broadcast.emit
RegisterNotice_Others(c, d) == << Msg("deviceConnected", Open \ {c}, d, 0) >>

\* io.emit('deviceConnected', { deviceId, timestamp })
RegisterNotice(c, d) == << Msg("deviceConnected", Open, d, 0) >>

RegisterDevice(c, d) ==
    /\ conn[c] = "open"
    /\ rooms' = [rooms EXCEPT ![c] = @ \cup {<<"device", d>>}]
    /\ socketDeviceId' = [socketDeviceId EXCEPT ![c] = d]
    /\ activeDevices' = MapSet(activeDevices, d, RegisteredSession(c))
    /\ emitted' = RegisterNotice(c, d)
    /\ op' = Op("registerDevice", c, d, 0, 0)
    /\ UNCHANGED mongo
    /\ UNCHANGED <<tickets, forwards, liveFrame, liveDetections>>
    /\ response' = NoResponse
    /\ written' = SseWrites(streams, emitted')
    /\ UNCHANGED streams
    /\ UNCHANGED <<conn, latestFrames, now, tasks, store>>

\* faulty variant: the cached frame is sent with io.emit instead of socket.emit
CatchUp_Broadcast(c, w) ==
    IF Has(latestFrames, w)
    THEN << Msg("liveStream", Open, w, latestFrames[w].frame) >>
    ELSE << >>

\* socket.on('watchDevice')
CatchUp(c, w) ==
    IF Has(latestFrames, w)
    THEN << Msg("liveStream", {c}, w, latestFrames[w].frame) >>
    ELSE << >>

WatchDevice(c, w) ==
    /\ conn[c] = "open"
    /\ rooms' = [rooms EXCEPT ![c] = @ \cup {<<"watch", w>>}]
    /\ emitted' = CatchUp(c, w)
    /\ op' = Op("watchDevice", c, w, 0, 0)
    /\ UNCHANGED mongo
    /\ UNCHANGED <<tickets, forwards, liveFrame, liveDetections>>
    /\ response' = NoResponse
    /\ written' = SseWrites(streams, emitted')
    /\ UNCHANGED streams
    /\ UNCHANGED <<conn, socketDeviceId, activeDevices, latestFrames, now, tasks, store>>

\* socket.on('video_frame'): relayed to every client as 'stream', nothing stored
VideoFrame(c, data, size) ==
    /\ conn[c] = "open"
    /\ size <= MaxHttpBufferSize
    /\ emitted' = << Msg("stream", Open, Resolve(c, data), data.frame) >>
    /\ op' = Op("video_frame", c, Resolve(c, data), data.frame, size)
    /\ UNCHANGED mongo
    /\ UNCHANGED <<tickets, forwards, liveFrame, liveDetections>>
    /\ response' = NoResponse
    /\ written' = SseWrites(streams, emitted')
    /\ UNCHANGED streams
    /\ UNCHANGED <<conn, socketDeviceId, rooms, activeDevices, latestFrames, now, tasks, store>>

\* faulty variant: the frame is put in the cache after the persistence loop
CacheEntry_Later(data) ==
    [frame |-> 0, detections |-> << >>, receivedAt |-> now]

\* socket.on('liveStream'), the part that runs before the first await
CacheEntry(data) ==
    [frame |-> data.frame, detections |-> data.detections, receivedAt |-> now]

\* faulty variant: the room relay is a broadcast
LiveStreamFanOut_Broadcast(dev, frame) ==
    << Msg("liveStream", Open, dev, frame),
       Msg("stream", Open, dev, frame) >>

\* faulty variant: nothing is sent before the persistence loop
LiveStreamFanOut_Deferred(dev, frame) == << >>

\* faulty variant: the frame is relayed to the watch room only
LiveStreamFanOut_RoomOnly(dev, frame) ==
    << Msg("liveStream", InRoom(<<"watch", dev>>), dev, frame) >>

\* faulty variant: the frame sent is the one that was in the cache
LiveStreamFanOut_Previous(dev, frame) ==
    LET f == IF Has(latestFrames, dev) THEN latestFrames[dev].frame ELSE frame
    IN  << Msg("liveStream", InRoom(<<"watch", dev>>), dev, f),
           Msg("stream", Open, dev, f) >>

LiveStreamFanOut(dev, frame) ==
    << Msg("liveStream", InRoom(<<"watch", dev>>), dev, frame),
       Msg("stream", Open, dev, frame) >>

\* new PotholeDetection({...}) of the persistence loop
DetectionId(dev, suffix) == <<dev, now, suffix>>

NewRecord(dev, det, suffix) ==
    [detectionId |-> DetectionId(dev, suffix),
     deviceId |-> IF dev = Undefined THEN "JETSON-001" ELSE dev,
     type |-> IF det.type = Undefined THEN "Surface Damage" ELSE det.type,
     severity |-> IF det.severity = Undefined THEN "medium" ELSE det.severity,
     confidence |-> IF det.confidence \in {NoConfidence, 0} THEN 0 ELSE det.confidence,
     forwarded |-> FALSE]

\* the handler suspended at the save of its idx-th detection
NewTask(dev, data, suffix) ==
    [dev |-> dev, frame |-> data.frame, dets |-> data.detections, idx |-> 1,
     rec |-> NewRecord(dev, data.detections[1], suffix), ids |-> << >>]

RECURSIVE PendingWrites(_)
PendingWrites(ts) ==
    IF ts = << >> THEN 0
    ELSE Len(Head(ts).dets) - Head(ts).idx + 1 + PendingWrites(Tail(ts))

LiveStream(c, data, size, suffix) ==
    LET dev == Resolve(c, data)
        dets == data.detections
    IN  /\ conn[c] = "open"
        /\ size <= MaxHttpBufferSize
        /\ activeDevices' = Touch(activeDevices, dev)
        /\ latestFrames' = MapSet(latestFrames, dev, CacheEntry(data))
        /\ emitted' = LiveStreamFanOut(dev, data.frame)
        /\ IF Len(dets) > 0
           THEN /\ Len(tasks) < MaxTasks
                /\ Cardinality(store) + PendingWrites(tasks) + Len(dets) <= MaxStore
                /\ tasks' = Append(tasks, NewTask(dev, data, suffix))
           ELSE tasks' = tasks
        /\ op' = Op("liveStream", c, dev, data.frame, size)
        /\ UNCHANGED mongo
        /\ UNCHANGED <<tickets, forwards, liveFrame, liveDetections>>
        /\ response' = NoResponse
        /\ written' = SseWrites(streams, emitted')
        /\ UNCHANGED streams
        /\ UNCHANGED <<conn, socketDeviceId, rooms, now, store>>

\* schema validation of PotholeDetection and its unique index on detectionId
Valid(rec) ==
    /\ rec.type \in TypeEnum
    /\ rec.severity \in SeverityEnum
    /\ rec.confidence \in 0..100

\* the pre('save') hook of the schema; save() runs the built-in validation
\* before the hooks added with schema.pre('save')
PreSave(rec) ==
    IF rec.type \in DOMAIN TypeMapping THEN [rec EXCEPT !.type = TypeMapping[rec.type]] ELSE rec

StoredIds == {r.detectionId : r \in store}

\* faulty variant: the element stays in the sequence
RemoveAt_Keep(s, i) == s

RemoveAt(s, i) == SubSeq(s, 1, i - 1) \o SubSeq(s, i + 1, Len(s))

\* faulty variant: 'liveDetections' is emitted after every save
SaveNotice_Each(t, ids) ==
    << DetectionsMsg(InRoom(<<"watch", t.dev>>), t.dev, t.frame, t.dets, ids) >>

\* the emit after the loop: io.to(`watch-${deviceId}`).emit('liveDetections', ...)
SaveNotice(t, ids) ==
    IF Len(ids) = Len(t.dets)
    THEN << DetectionsMsg(InRoom(<<"watch", t.dev>>), t.dev, t.frame, t.dets, ids) >>
    ELSE << >>

\* `await detectionRecord.save()` resolves: the loop goes on to the next
\* detection, or leaves the loop and emits 'liveDetections'
SaveOk(i, suffix) ==
    /\ i \in 1..Len(tasks)
    /\ LET t == tasks[i]
           dets == t.dets
       IN  /\ Valid(t.rec)
           /\ t.rec.detectionId \notin StoredIds
           /\ store' = store \cup {PreSave(t.rec)}
           /\ IF t.idx < Len(dets)
              THEN /\ tasks' = [tasks EXCEPT ![i] =
                          [t EXCEPT !.idx = @ + 1,
                                    !.rec = NewRecord(t.dev, dets[t.idx + 1], suffix),
                                    !.ids = Append(@, t.rec.detectionId)]]
              ELSE tasks' = RemoveAt(tasks, i)
           /\ emitted' = SaveNotice(t, Append(t.ids, t.rec.detectionId))
    /\ op' = Op("saveOk", 0, tasks[i].dev, tasks[i].frame, 0)
    /\ UNCHANGED mongo
    /\ UNCHANGED <<tickets, forwards, liveFrame, liveDetections>>
    /\ response' = NoResponse
    /\ written' = SseWrites(streams, emitted')
    /\ UNCHANGED streams
    /\ UNCHANGED <<conn, socketDeviceId, rooms, activeDevices, latestFrames, now>>

\* `await detectionRecord.save()` rejects: the catch block logs, the handler ends
SaveFail(i) ==
    /\ i \in 1..Len(tasks)
    /\ tasks' = RemoveAt(tasks, i)
    /\ emitted' = << >>
    /\ op' = Op("saveFail", 0, tasks[i].dev, tasks[i].frame, 0)
    /\ UNCHANGED mongo
    /\ UNCHANGED <<tickets, forwards, liveFrame, liveDetections>>
    /\ response' = NoResponse
    /\ written' = SseWrites(streams, emitted')
    /\ UNCHANGED streams
    /\ UNCHANGED <<conn, socketDeviceId, rooms, activeDevices, latestFrames, now, store>>

\* a socket message larger than maxHttpBufferSize never reaches a handler
SocketOversized(c, size) ==
    /\ conn[c] = "open"
    /\ size > MaxHttpBufferSize
    /\ emitted' = << >>
    /\ op' = Op("socketOversized", c, Undefined, 0, size)
    /\ UNCHANGED mongo
    /\ UNCHANGED <<tickets, forwards, liveFrame, liveDetections>>
    /\ response' = NoResponse
    /\ written' = SseWrites(streams, emitted')
    /\ UNCHANGED streams
    /\ UNCHANGED <<conn, socketDeviceId, rooms, activeDevices, latestFrames, now, tasks, store>>

\* router.post('/stream')
HttpSession(body) ==
    IF ~Has(activeDevices, body.deviceId)
    THEN MapSet(activeDevices, body.deviceId,
                [socketId |-> NoSocket, connectedAt |-> now, lastSeen |-> now,
                 status |-> body.stats])
    ELSE [activeDevices EXCEPT ![body.deviceId].lastSeen = now,
                               ![body.deviceId].status = body.stats]

HttpFanOut(body) ==
    << Msg("liveStream", Open, body.deviceId, body.frame) >> \o
    (IF Len(body.detections) > 0
     THEN << DetectionsMsg(Open, body.deviceId, body.frame, body.detections, << >>) >>
     ELSE << >>)

HttpStream(body, size) ==
    /\ size <= JsonLimit
    /\ latestFrames' = MapSet(latestFrames, body.deviceId, CacheEntry(body))
    /\ activeDevices' = HttpSession(body)
    /\ emitted' = HttpFanOut(body)
    /\ op' = Op("httpStream", 0, body.deviceId, body.frame, size)
    /\ UNCHANGED mongo
    /\ UNCHANGED <<tickets, forwards, liveFrame, liveDetections>>
    /\ response' = NoResponse
    /\ written' = SseWrites(streams, emitted')
    /\ UNCHANGED streams
    /\ UNCHANGED <<conn, socketDeviceId, rooms, now, tasks, store>>

\* express.json answers 413 to a body over its limit; the route does not run
HttpOversized(size) ==
    /\ size > JsonLimit
    /\ emitted' = << >>
    /\ op' = Op("httpOversized", 0, Undefined, 0, size)
    /\ UNCHANGED mongo
    /\ UNCHANGED <<tickets, forwards, liveFrame, liveDetections>>
    /\ response' = NoResponse
    /\ written' = SseWrites(streams, emitted')
    /\ UNCHANGED streams
    /\ UNCHANGED <<conn, socketDeviceId, rooms, activeDevices, latestFrames, now, tasks, store>>

\* faulty variant: the status is sent to the watch room as well
StatusNotice_Twice(dev) ==
    << Msg("deviceStatus", InRoom(<<"watch", dev>>), dev, 0),
       Msg("deviceStatus", Open, dev, 0) >>

\* io.emit('deviceStatus', data)
StatusNotice(dev) == << Msg("deviceStatus", Open, dev, 0) >>

\* socket.on('deviceStatusUpdate')
DeviceStatusUpdate(c, data) ==
    LET dev == Resolve(c, data)
    IN  /\ conn[c] = "open"
        /\ activeDevices' =
              IF Has(activeDevices, dev)
              THEN [activeDevices EXCEPT ![dev].lastSeen = now, ![dev].status = data.status]
              ELSE activeDevices
        /\ emitted' = StatusNotice(dev)
        /\ op' = Op("deviceStatusUpdate", c, dev, 0, 0)
        /\ UNCHANGED mongo
        /\ UNCHANGED <<tickets, forwards, liveFrame, liveDetections>>
        /\ response' = NoResponse
        /\ written' = SseWrites(streams, emitted')
        /\ UNCHANGED streams
        /\ UNCHANGED <<conn, socketDeviceId, rooms, latestFrames, now, tasks, store>>

\* socket.on('disconnect'); Socket.IO has removed the socket from its rooms
Disconnect(c) ==
    /\ conn[c] = "open"
    /\ conn' = [conn EXCEPT ![c] = "closed"]
    /\ rooms' = [rooms EXCEPT ![c] = {}]
    /\ IF socketDeviceId[c] # Undefined
       THEN /\ activeDevices' = MapDelete(activeDevices, socketDeviceId[c])
            /\ latestFrames' = MapDelete(latestFrames, socketDeviceId[c])
            /\ emitted' = << Msg("deviceDisconnected", Open \ {c}, socketDeviceId[c], 0) >>
       ELSE /\ UNCHANGED <<activeDevices, latestFrames>>
            /\ emitted' = << >>
    /\ op' = Op("disconnect", c, socketDeviceId[c], 0, 0)
    /\ UNCHANGED mongo
    /\ UNCHANGED <<tickets, forwards, liveFrame, liveDetections>>
    /\ response' = NoResponse
    /\ written' = SseWrites(streams, emitted')
    /\ UNCHANGED streams
    /\ UNCHANGED <<socketDeviceId, now, tasks, store>>

\* time passes: new Date() advances by half a liveness window
Tick ==
    /\ now < MaxTime * LivenessWindow
    /\ now' = now + (LivenessWindow \div 2)
    /\ emitted' = << >>
    /\ op' = Op("tick", 0, Undefined, 0, 0)
    /\ UNCHANGED mongo
    /\ UNCHANGED <<tickets, forwards, liveFrame, liveDetections>>
    /\ response' = NoResponse
    /\ written' = SseWrites(streams, emitted')
    /\ UNCHANGED streams
    /\ UNCHANGED <<conn, socketDeviceId, rooms, activeDevices, latestFrames, tasks, store>>

\* socket.on('getActiveDevices'): every entry of the Map, { deviceId: key, ...value }
SocketListing ==
    {[deviceId |-> k, socketId |-> activeDevices[k].socketId,
      connectedAt |-> activeDevices[k].connectedAt,
      lastSeen |-> activeDevices[k].lastSeen,
      status |-> activeDevices[k].status] : k \in DOMAIN activeDevices}

\* faulty variant: the list is sent with io.emit
ListingReply_Broadcast(c) == << Msg("activeDevices", Open, Undefined, 0) >>

\* socket.emit('activeDevices', devices)
ListingReply(c) == << Msg("activeDevices", {c}, Undefined, 0) >>

GetActiveDevices(c) ==
    /\ conn[c] = "open"
    /\ response' = SocketListing
    /\ emitted' = ListingReply(c)
    /\ op' = Op("getActiveDevices", c, Undefined, 0, 0)
    /\ UNCHANGED mongo
    /\ UNCHANGED <<tickets, forwards, liveFrame, liveDetections>>
    /\ written' = SseWrites(streams, emitted')
    /\ UNCHANGED streams
    /\ UNCHANGED <<conn, socketDeviceId, rooms, activeDevices, latestFrames, now, tasks, store>>

\* router.get('/status'): every entry of the Map, status: value.status || null
StatusListing ==
    {[deviceId |-> k, connectedAt |-> activeDevices[k].connectedAt,
      lastSeen |-> activeDevices[k].lastSeen,
      status |-> IF activeDevices[k].status = NoStatus THEN "null"
                 ELSE activeDevices[k].status] : k \in DOMAIN activeDevices}

HttpStatus ==
    /\ response' = StatusListing
    /\ emitted' = << >>
    /\ op' = Op("httpStatus", 0, Undefined, 0, 0)
    /\ UNCHANGED mongo
    /\ UNCHANGED <<tickets, forwards, liveFrame, liveDetections>>
    /\ written' = SseWrites(streams, emitted')
    /\ UNCHANGED streams
    /\ UNCHANGED <<conn, socketDeviceId, rooms, activeDevices, latestFrames, now, tasks, store>>

\* router.get('/devices'): isActive = (new Date() - new Date(value.lastSeen)) < 30000
IsActive(value) == (now - value.lastSeen) < LivenessWindow

\* every entry of the Map is pushed, with its isActive flag
DevicesListing ==
    {[deviceId |-> k, socketId |-> activeDevices[k].socketId,
      connectedAt |-> activeDevices[k].connectedAt,
      lastSeen |-> activeDevices[k].lastSeen,
      isActive |-> IsActive(activeDevices[k]),
      status |-> IF activeDevices[k].status = NoStatus THEN "{}"
                 ELSE activeDevices[k].status] : k \in DOMAIN activeDevices}

HttpDevices ==
    /\ response' = DevicesListing
    /\ emitted' = << >>
    /\ op' = Op("httpDevices", 0, Undefined, 0, 0)
    /\ UNCHANGED mongo
    /\ UNCHANGED <<tickets, forwards, liveFrame, liveDetections>>
    /\ written' = SseWrites(streams, emitted')
    /\ UNCHANGED streams
    /\ UNCHANGED <<conn, socketDeviceId, rooms, activeDevices, latestFrames, now, tasks, store>>

\* router.get('/events/:deviceId'): the 'connected' event is written and the
\* three listeners are added to io
OpenEvents(s, param) ==
    /\ ~Has(streams, s)
    /\ streams' = MapSet(streams, s, param)
    /\ written' = {[stream |-> s, event |-> "connected", dev |-> param, frame |-> 0, idx |-> 0]}
    /\ emitted' = << >>
    /\ op' = Op("openEvents", 0, param, 0, 0)
    /\ UNCHANGED mongo
    /\ UNCHANGED <<tickets, forwards, liveFrame, liveDetections>>
    /\ response' = NoResponse
    /\ UNCHANGED <<conn, socketDeviceId, rooms, activeDevices, latestFrames, now, tasks, store>>

\* the setInterval callback of an open stream
Heartbeat(s) ==
    /\ Has(streams, s)
    /\ written' = {[stream |-> s, event |-> "heartbeat", dev |-> Undefined, frame |-> 0, idx |-> 0]}
    /\ emitted' = << >>
    /\ op' = Op("heartbeat", 0, streams[s], 0, 0)
    /\ UNCHANGED mongo
    /\ UNCHANGED <<tickets, forwards, liveFrame, liveDetections>>
    /\ response' = NoResponse
    /\ UNCHANGED <<conn, socketDeviceId, rooms, activeDevices, latestFrames, now, tasks, store,
                   streams>>

\* req.on('close'): the timer is cleared and the listeners are removed
CloseEvents(s) ==
    /\ Has(streams, s)
    /\ streams' = MapDelete(streams, s)
    /\ written' = {}
    /\ emitted' = << >>
    /\ op' = Op("closeEvents", 0, streams[s], 0, 0)
    /\ UNCHANGED mongo
    /\ UNCHANGED <<tickets, forwards, liveFrame, liveDetections>>
    /\ response' = NoResponse
    /\ UNCHANGED <<conn, socketDeviceId, rooms, activeDevices, latestFrames, now, tasks, store>>

\* ------------------------------------------------------ repair tickets
\* generateTicketId(): `PWD-${year}-${random}`, a random draw
TicketIds == 1..MaxTicket

\* detection.severity.charAt(0).toUpperCase() + detection.severity.slice(1)
Capitalise(severity) ==
    CASE severity = "low" -> "Low"
      [] severity = "medium" -> "Medium"
      [] severity = "high" -> "High"
      [] OTHER -> severity

\* new RepairTicket({ ticketId, potholeDetectionId: detection._id, ... })
NewTicket(ticketId, detection) ==
    [ticketId |-> ticketId, potholeDetectionId |-> detection.detectionId,
     hazardType |-> detection.type, severity |-> Capitalise(detection.severity),
     status |-> "Pending Approval"]

\* PotholeDetection.findById(req.params.id)
FindById(id) == {r \in store : r.detectionId = id}

\* faulty variant: the test of the flag is left out
AlreadyForwarded_Never(detection) == FALSE

\* if (detection.forwarded)
AlreadyForwarded(detection) == detection.forwarded

\* res.status(...).json(...) of the forward route
ForwardResponse(status, id) == << "forward", status, id >>

ForwardOp(name, id) ==
    [name |-> name, conn |-> 0, dev |-> Undefined, frame |-> 0, size |-> 0, id |-> id]

\* the unique index on ticketId
TicketIdsStored == {t.ticketId : t \in tickets}

\* POST /api/detections/:id/forward: findById resolves with the document as
\* stored at that moment; the handler answers 404 or 400, or builds the
\* ticket and suspends at `await ticket.save()`
Forward(id, ticketId) ==
    /\ LET found == FindById(id)
       IN  IF found = {}
           THEN /\ response' = ForwardResponse(404, id)
                /\ forwards' = forwards
           ELSE LET detection == CHOOSE r \in found : TRUE
                IN  IF AlreadyForwarded(detection)
                    THEN /\ response' = ForwardResponse(400, id)
                         /\ forwards' = forwards
                    ELSE /\ Len(forwards) < MaxForwards
                         /\ response' = NoResponse
                         /\ forwards' = Append(forwards,
                                [id |-> id, detection |-> detection,
                                 ticket |-> NewTicket(ticketId, detection),
                                 at |-> "ticket.save"])
    /\ emitted' = << >>
    /\ op' = ForwardOp("forward", id)
    /\ written' = SseWrites(streams, emitted')
    /\ UNCHANGED <<conn, socketDeviceId, rooms, activeDevices, latestFrames, now, tasks, store,
                   streams, mongo, tickets, liveFrame, liveDetections>>

\* `await ticket.save()` resolves: detection.forwarded = true on the document
\* held by the request, which suspends at `await detection.save()`
ForwardTicketSaved(i) ==
    /\ i \in 1..Len(forwards)
    /\ forwards[i].at = "ticket.save"
    /\ forwards[i].ticket.ticketId \notin TicketIdsStored
    /\ tickets' = tickets \cup {forwards[i].ticket}
    /\ forwards' = [forwards EXCEPT ![i].at = "detection.save",
                                    ![i].detection.forwarded = TRUE]
    /\ response' = NoResponse
    /\ emitted' = << >>
    /\ op' = ForwardOp("forwardTicketSaved", forwards[i].id)
    /\ written' = SseWrites(streams, emitted')
    /\ UNCHANGED <<conn, socketDeviceId, rooms, activeDevices, latestFrames, now, tasks, store,
                   streams, mongo, liveFrame, liveDetections>>

\* `await ticket.save()` rejects (a ticketId already stored, or the database
\* refuses the write): the catch block answers 500
ForwardTicketFailed(i) ==
    /\ i \in 1..Len(forwards)
    /\ forwards[i].at = "ticket.save"
    /\ forwards' = RemoveAt(forwards, i)
    /\ response' = ForwardResponse(500, forwards[i].id)
    /\ emitted' = << >>
    /\ op' = ForwardOp("forwardTicketFailed", forwards[i].id)
    /\ written' = SseWrites(streams, emitted')
    /\ UNCHANGED <<conn, socketDeviceId, rooms, activeDevices, latestFrames, now, tasks, store,
                   streams, mongo, tickets, liveFrame, liveDetections>>

\* the document as written by detection.save(): the modified paths are set
Forwarded(id) ==
    {IF r.detectionId = id THEN [r EXCEPT !.forwarded = TRUE] ELSE r : r \in store}

\* `await detection.save()` resolves: 'newTicket' and 'detectionUpdated' are
\* emitted to everyone and the request is answered
ForwardDetectionSaved(i) ==
    /\ i \in 1..Len(forwards)
    /\ forwards[i].at = "detection.save"
    /\ store' = Forwarded(forwards[i].id)
    /\ forwards' = RemoveAt(forwards, i)
    /\ response' = ForwardResponse(200, forwards[i].id)
    /\ emitted' = << Msg("newTicket", Open, forwards[i].detection.deviceId, 0),
                     Msg("detectionUpdated", Open, forwards[i].detection.deviceId, 0) >>
    /\ op' = ForwardOp("forwardDetectionSaved", forwards[i].id)
    /\ written' = SseWrites(streams, emitted')
    /\ UNCHANGED <<conn, socketDeviceId, rooms, activeDevices, latestFrames, now, tasks,
                   streams, mongo, tickets, liveFrame, liveDetections>>

\* `await detection.save()` rejects: the catch block answers 500; the ticket
\* saved before stays
ForwardDetectionFailed(i) ==
    /\ i \in 1..Len(forwards)
    /\ forwards[i].at = "detection.save"
    /\ forwards' = RemoveAt(forwards, i)
    /\ response' = ForwardResponse(500, forwards[i].id)
    /\ emitted' = << >>
    /\ op' = ForwardOp("forwardDetectionFailed", forwards[i].id)
    /\ written' = SseWrites(streams, emitted')
    /\ UNCHANGED <<conn, socketDeviceId, rooms, activeDevices, latestFrames, now, tasks, store,
                   streams, mongo, tickets, liveFrame, liveDetections>>

\* -------------------------------------------------------- viewer hook
\* the handlers of the useSocket hook that write liveDetections
ClientOps == {"stream", "liveStream", "liveDetections", "newDetection"}

ClientOp(name, count) ==
    [name |-> name, conn |-> 0, dev |-> Undefined, frame |-> 0, size |-> 0, count |-> count]

\* the number of the event whose entries are added next: one more than the
\* number of the event of the newest entry
NextEvent == IF liveDetections = << >> THEN 1 ELSE liveDetections[1].event + 1

\* data.detections.map(d => ({...d, id: ...})): the entries of one event, in
\* the order of its detections
Entries(n) == [i \in 1..n |-> [event |-> NextEvent, idx |-> i]]

Min(a, b) == IF a < b THEN a ELSE b

\* faulty variant: the end of the list is kept
Slice_End(list) == SubSeq(list, Len(list) - Min(Len(list), LogLimit) + 1, Len(list))

\* list.slice(0, 50)
Slice(list) == SubSeq(list, 1, Min(Len(list), LogLimit))

\* setLiveDetections(prev => [...newDetections, ...prev].slice(0, 50))
Prepend(n) == Slice(Entries(n) \o liveDetections)

\* socket.on('stream') and socket.on('liveStream') of the hook: the frame is
\* kept, and its detections, when it has some, are put in front of the list
ClientStream(name, frame, n) ==
    /\ name \in {"stream", "liveStream"}
    /\ n > 0 => NextEvent <= MaxEvents
    /\ liveFrame' = [frame |-> frame, count |-> n]
    /\ liveDetections' = IF n > 0 THEN Prepend(n) ELSE liveDetections
    /\ emitted' = << >>
    /\ op' = ClientOp(name, n)
    /\ response' = NoResponse
    /\ written' = SseWrites(streams, emitted')
    /\ UNCHANGED <<conn, socketDeviceId, rooms, activeDevices, latestFrames, now, tasks, store,
                   streams, mongo, tickets, forwards>>

\* socket.on('liveDetections') of the hook
ClientLiveDetections(n) ==
    /\ n > 0 => NextEvent <= MaxEvents
    /\ liveDetections' = Prepend(n)
    /\ emitted' = << >>
    /\ op' = ClientOp("liveDetections", n)
    /\ response' = NoResponse
    /\ written' = SseWrites(streams, emitted')
    /\ UNCHANGED <<conn, socketDeviceId, rooms, activeDevices, latestFrames, now, tasks, store,
                   streams, mongo, tickets, forwards, liveFrame>>

\* socket.on('newDetection') of the hook: [newDet, ...prev].slice(0, 50)
ClientNewDetection ==
    /\ NextEvent <= MaxEvents
    /\ liveDetections' = Prepend(1)
    /\ emitted' = << >>
    /\ op' = ClientOp("newDetection", 1)
    /\ response' = NoResponse
    /\ written' = SseWrites(streams, emitted')
    /\ UNCHANGED <<conn, socketDeviceId, rooms, activeDevices, latestFrames, now, tasks, store,
                   streams, mongo, tickets, forwards, liveFrame>>

\* ------------------------------------------------------ MongoDB URI
\* strings are sequences of characters
AppName == << "?", "a", "p", "p", "N", "a", "m", "e" >>
AppNameEq == << "?", "a", "p", "p", "N", "a", "m", "e", "=" >>
MongoDb == << "m", "o", "n", "g", "o", "d", "b" >>

\* String.prototype.endsWith / startsWith / slice(0, -n) / includes
EndsWith(str, t) ==
    Len(str) >= Len(t) /\ SubSeq(str, Len(str) - Len(t) + 1, Len(str)) = t
StartsWith(str, t) == Len(str) >= Len(t) /\ SubSeq(str, 1, Len(t)) = t
SliceEnd(str, n) == IF Len(str) >= n THEN SubSeq(str, 1, Len(str) - n) ELSE << >>
Includes(str, ch) == \E i \in 1..Len(str) : str[i] = ch

\* sanitizeURI of verify_fix.js: two ifs, one after the other
sanitizeURI(uri) ==
    LET u1 == IF uri # << >> /\ EndsWith(uri, AppName) THEN SliceEnd(uri, 8) ELSE uri
        u2 == IF u1 # << >> /\ EndsWith(u1, AppNameEq) THEN SliceEnd(u1, 9) ELSE u1
    IN  u2

\* connectDB, as first written: the URI passed to mongoose.connect
ConnectURI(uri) ==
    LET u1 == IF uri # << >> /\ EndsWith(uri, AppName) THEN SliceEnd(uri, 8) ELSE uri
        u2 == IF u1 # << >> /\ EndsWith(u1, AppNameEq) THEN SliceEnd(u1, 9) ELSE u1
    IN  u2

\* parts.join('%40') of the parts before the last one
RECURSIVE EncodeAt(_)
EncodeAt(str) ==
    IF str = << >> THEN << >>
    ELSE (IF Head(str) = "@" THEN << "%", "4", "0" >> ELSE << Head(str) >>) \o EncodeAt(Tail(str))

\* the index of the last '@' of a string that includes one
LastAt(str) == CHOOSE i \in 1..Len(str) :
                   str[i] = "@" /\ \A j \in (i + 1)..Len(str) : str[j] # "@"

\* mongoURI.split('@').length
PartsLength(str) == Cardinality({i \in 1..Len(str) : str[i] = "@"}) + 1

\* connectDB, as rewritten: if / else if, then the '@' of the credentials encoded
ConnectURIEncoded(uri) ==
    IF uri = << >> THEN uri
    ELSE LET u1 == IF EndsWith(uri, AppName) THEN SliceEnd(uri, 8)
                   ELSE IF EndsWith(uri, AppNameEq) THEN SliceEnd(uri, 9)
                   ELSE uri
         IN  IF Includes(u1, "@") /\ PartsLength(u1) > 2 /\ StartsWith(u1, MongoDb)
             THEN EncodeAt(SubSeq(u1, 1, LastAt(u1) - 1)) \o << "@" >> \o
                  SubSeq(u1, LastAt(u1) + 1, Len(u1))
             ELSE u1

\* faulty variant: the result is sanitised until no suffix is left
RECURSIVE SanitizeCall_Fixpoint(_)
SanitizeCall_Fixpoint(uri) ==
    IF sanitizeURI(uri) = uri THEN uri ELSE SanitizeCall_Fixpoint(sanitizeURI(uri))

\* const result = sanitizeURI(uri)
SanitizeCall(uri) == sanitizeURI(uri)

\* verify_fix.js calls sanitizeURI, here on the result of the call before
VerifyFix ==
    /\ Len(mongo.outs) < MaxCalls
    /\ mongo' = [mongo EXCEPT !.outs =
                    Append(@, SanitizeCall(IF @ = << >> THEN mongo.env ELSE @[Len(@)]))]
    /\ UNCHANGED <<conn, socketDeviceId, rooms, activeDevices, latestFrames, now, tasks, store,
                   emitted, op, response, streams, written, tickets, forwards, liveFrame, liveDetections>>

\* connectDB() of the server start, as first written
ConnectDB ==
    /\ mongo.connected = << >>
    /\ mongo' = [mongo EXCEPT !.connected =
                    << [by |-> "connectDB", uri |-> ConnectURI(mongo.env)] >>]
    /\ UNCHANGED <<conn, socketDeviceId, rooms, activeDevices, latestFrames, now, tasks, store,
                   emitted, op, response, streams, written, tickets, forwards, liveFrame, liveDetections>>

\* connectDB() of the server start, as rewritten
ConnectDBEncoded ==
    /\ mongo.connected = << >>
    /\ mongo' = [mongo EXCEPT !.connected =
                    << [by |-> "connectDBEncoded", uri |-> ConnectURIEncoded(mongo.env)] >>]
    /\ UNCHANGED <<conn, socketDeviceId, rooms, activeDevices, latestFrames, now, tasks, store,
                   emitted, op, response, streams, written, tickets, forwards, liveFrame, liveDetections>>

\* a value of MONGODB_URI: up to MaxPieces pieces put one after the other
UriPieces == {AppName, << "=" >>, << "/" >>, << "@" >>, MongoDb}

RECURSIVE UrisOf(_)
UrisOf(n) ==
    IF n = 0 THEN {<< >>}
    ELSE UrisOf(n - 1) \cup {u \o q : u \in UrisOf(n - 1), q \in UriPieces}

Uris == UrisOf(MaxPieces)

\* ---------------------------------------------------------- messages
NoDetections == {<< >>}
FrameData(dl) == [deviceId : Keys, frame : Frames, detections : dl]
HttpBody(dl) == [deviceId : Keys, frame : Frames, detections : dl, stats : {NoStatus}]
StatusData == [deviceId : Keys, status : {"s1"}]

\* ------------------------------------------------------ specifications
\* The relay: one producer connection, one viewer connection, the HTTP
\* fallback; frames without detections.
Producers == {1}
Viewers == {2}

Next ==
    \/ \E c \in Producers \cup Viewers : Connect(c)
    \/ \E c \in Producers, d \in DeviceIds : RegisterDevice(c, d)
    \/ \E c \in Viewers, w \in WatchNames : WatchDevice(c, w)
    \/ \E c \in Producers, data \in FrameData(NoDetections), size \in FrameSizes :
          VideoFrame(c, data, size)
    \/ \E c \in Producers, data \in FrameData(NoDetections), size \in FrameSizes :
          LiveStream(c, data, size, 1)
    \/ \E c \in Producers, size \in FrameSizes : SocketOversized(c, size)
    \/ \E body \in HttpBody(NoDetections), size \in FrameSizes : HttpStream(body, size)
    \/ \E size \in FrameSizes : HttpOversized(size)
    \/ \E c \in Producers \cup Viewers : Disconnect(c)

Spec == Init /\ [][Next]_vars

\* The session registry: two producer connections that register, re-register,
\* stream one frame content, report status and disconnect.
SessionFrameData == [deviceId : Keys, frame : {1}, detections : NoDetections]
SessionHttpBody == [deviceId : Keys, frame : {1}, detections : NoDetections, stats : {NoStatus}]

NextSession ==
    \/ \E c \in {1, 2} : Connect(c)
    \/ \E c \in {1, 2}, d \in DeviceIds : RegisterDevice(c, d)
    \/ \E c \in {1, 2}, data \in SessionFrameData : LiveStream(c, data, 1000000, 1)
    \/ \E c \in {1, 2}, data \in StatusData : DeviceStatusUpdate(c, data)
    \/ \E body \in SessionHttpBody : HttpStream(body, 1000000)
    \/ \E c \in {1, 2} : Disconnect(c)

SpecSession == Init /\ [][NextSession]_vars

\* The persistence pipeline: the producer of d1 streams frames with and without
\* detections over the socket and over HTTP, a viewer watches d1, and the
\* saves of the suspended handlers succeed or fail.
PersistFrameData == [deviceId : {"d1"}, frame : {1, 2}, detections : DetLists]
PersistHttpBody == [deviceId : {"d1"}, frame : {1, 2}, detections : DetLists, stats : {NoStatus}]

NextPersist ==
    \/ \E c \in {1, 2} : Connect(c)
    \/ RegisterDevice(1, "d1")
    \/ WatchDevice(2, "d1")
    \/ \E data \in PersistFrameData, s \in Suffixes : LiveStream(1, data, 1000000, s)
    \/ \E i \in 1..MaxTasks, s \in Suffixes : SaveOk(i, s)
    \/ \E i \in 1..MaxTasks : SaveFail(i)
    \/ \E body \in PersistHttpBody : HttpStream(body, 1000000)
    \/ \E c \in {1, 2} : Disconnect(c)

SpecPersist == Init /\ [][NextPersist]_vars

\* The device listing: a producer registers and streams, time passes, and a
\* viewer asks for the active devices over the socket and over HTTP.
ListingFrameData == [deviceId : {Undefined}, frame : {1}, detections : NoDetections]

NextListing ==
    \/ \E c \in {1, 2} : Connect(c)
    \/ \E d \in DeviceIds : RegisterDevice(1, d)
    \/ \E data \in ListingFrameData : LiveStream(1, data, 1000000, 1)
    \/ Tick
    \/ \E c \in {1, 2} : GetActiveDevices(c)
    \/ HttpStatus
    \/ HttpDevices
    \/ \E c \in {1, 2} : Disconnect(c)

SpecListing == Init /\ [][NextListing]_vars

\* The pulled event stream: event streams are opened and closed while the
\* producer of d1 streams frames with detections and reports status, over the
\* socket and over HTTP, and a viewer watches over the socket.
StreamIds == {1, 2}
SseParams == {"d1", "d2", "all"}
EventsFrameData == [deviceId : {"d1"}, frame : {1}, detections : DetLists]
EventsHttpBody == [deviceId : {"d1"}, frame : {1}, detections : DetLists, stats : {NoStatus}]
EventsStatusData == [deviceId : {"d1"}, status : {"s1"}]

NextEvents ==
    \/ \E c \in {1, 2} : Connect(c)
    \/ WatchDevice(2, "d1")
    \/ \E data \in EventsFrameData : LiveStream(1, data, 1000000, 1)
    \/ SaveOk(1, 2)
    \/ \E data \in EventsStatusData : DeviceStatusUpdate(1, data)
    \/ \E body \in EventsHttpBody : HttpStream(body, 1000000)
    \/ \E s \in StreamIds, param \in SseParams : OpenEvents(s, param)
    \/ \E s \in StreamIds : Heartbeat(s)
    \/ \E s \in StreamIds : CloseEvents(s)
    \/ \E c \in {1, 2} : Disconnect(c)

SpecEvents == Init /\ [][NextEvents]_vars

\* The roles: two connections that may each register a device, subscribe to
\* a device and stream frames.
RolesFrameData == [deviceId : {Undefined}, frame : {1}, detections : NoDetections]

NextRoles ==
    \/ \E c \in {1, 2} : Connect(c)
    \/ \E c \in {1, 2}, d \in DeviceIds : RegisterDevice(c, d)
    \/ \E c \in {1, 2}, w \in DeviceIds : WatchDevice(c, w)
    \/ \E c \in {1, 2}, data \in RolesFrameData : LiveStream(c, data, 1000000, 1)
    \/ \E c \in {1, 2} : Disconnect(c)

SpecRoles == Init /\ [][NextRoles]_vars

\* The record normalisation: one producer streams frames whose detections
\* carry taxonomy labels, synonym labels, unknown labels and missing fields,
\* and the saves succeed or fail.
LabelDets ==
    { [type |-> "Deep Pothole", severity |-> "high", confidence |-> 91],
      [type |-> "Pothole", severity |-> "low", confidence |-> 80],
      [type |-> "Rut", severity |-> "high", confidence |-> 50],
      [type |-> Undefined, severity |-> Undefined, confidence |-> NoConfidence] }

LabelDetLists ==
    {<<d>> : d \in LabelDets} \cup
    (IF MaxDets >= 2 THEN {<<d, e>> : d \in LabelDets, e \in LabelDets} ELSE {})

NormaliseFrameData == [deviceId : {"d1"}, frame : {1}, detections : LabelDetLists]

NextNormalise ==
    \/ Connect(1)
    \/ \E data \in NormaliseFrameData : LiveStream(1, data, 1000000, 1)
    \/ \E s \in Suffixes : SaveOk(1, s)
    \/ SaveFail(1)
    \/ Disconnect(1)

SpecNormalise == Init /\ [][NextNormalise]_vars

\* The MongoDB URI: the server starts with some MONGODB_URI; verify_fix.js
\* sanitises it and connectDB connects.
InitURI ==
    /\ conn = [c \in Conns |-> "new"]
    /\ socketDeviceId = [c \in Conns |-> Undefined]
    /\ rooms = [c \in Conns |-> {}]
    /\ activeDevices = << >>
    /\ latestFrames = << >>
    /\ now = 0
    /\ tasks = << >>
    /\ store = {}
    /\ emitted = << >>
    /\ op = Op("init", 0, Undefined, 0, 0)
    /\ response = NoResponse
    /\ streams = << >>
    /\ written = {}
    /\ mongo \in [env : Uris, outs : {<< >>}, connected : {<< >>}]
    /\ tickets = {}
    /\ forwards = << >>
    /\ liveFrame = NoFrame
    /\ liveDetections = << >>

NextURI ==
    \/ VerifyFix
    \/ ConnectDB
    \/ ConnectDBEncoded

SpecURI == InitURI /\ [][NextURI]_vars

\* The interleavings: the producer of d1 streams frames with and without a
\* detection, reports status and disconnects, the saves of its suspended
\* handlers end, and a viewer subscribes, asks for the device list and
\* disconnects.
OneDetection == {<< >>, SubSeq(DetPool, 1, 1)}
InterleaveFrameData == [deviceId : {Undefined}, frame : {1, 2}, detections : OneDetection]
InterleaveStatusData == [deviceId : {Undefined}, status : {"s1"}]

NextInterleave ==
    \/ \E c \in {1, 2} : Connect(c)
    \/ RegisterDevice(1, "d1")
    \/ WatchDevice(2, "d1")
    \/ \E data \in InterleaveFrameData : LiveStream(1, data, 1000000, 1)
    \/ \E i \in 1..MaxTasks : SaveOk(i, 1)
    \/ \E i \in 1..MaxTasks : SaveFail(i)
    \/ \E data \in InterleaveStatusData : DeviceStatusUpdate(1, data)
    \/ GetActiveDevices(2)
    \/ Disconnect(1)
    \/ Disconnect(2)

SpecInterleave == Init /\ [][NextInterleave]_vars

\* The last-seen times: while time passes, a producer registers, streams
\* frames and reports status, and a second connection reports status for d1
\* and for a device without session.
FreshFrameData == [deviceId : {Undefined}, frame : {1}, detections : NoDetections]
FreshStatusData == [deviceId : {Undefined, "d1"}, status : {"s1"}]

NextFresh ==
    \/ \E c \in {1, 2} : Connect(c)
    \/ \E d \in DeviceIds : RegisterDevice(1, d)
    \/ \E data \in FreshFrameData : LiveStream(1, data, 1000000, 1)
    \/ \E data \in FreshFrameData : VideoFrame(1, data, 1000000)
    \/ \E c \in {1, 2}, data \in FreshStatusData : DeviceStatusUpdate(c, data)
    \/ Disconnect(1)
    \/ Tick

SpecFresh == Init /\ [][NextFresh]_vars

\* Forwarding: one producer stores detections; forward requests for them are
\* received while others are suspended.
ForwardFrameData == [deviceId : {"d1"}, frame : {1}, detections : {SubSeq(DetPool, 1, 1)}]
ForwardSuffixes == {1, 2}
ForwardTargets == {DetectionId("d1", s) : s \in ForwardSuffixes}

NextForward ==
    \/ Connect(1)
    \/ \E data \in ForwardFrameData, s \in ForwardSuffixes : LiveStream(1, data, 1000000, s)
    \/ SaveOk(1, 1)
    \/ \E id \in ForwardTargets, ticketId \in TicketIds : Forward(id, ticketId)
    \/ \E i \in 1..MaxForwards : ForwardTicketSaved(i)
    \/ \E i \in 1..MaxForwards : ForwardTicketFailed(i)
    \/ \E i \in 1..MaxForwards : ForwardDetectionSaved(i)
    \/ \E i \in 1..MaxForwards : ForwardDetectionFailed(i)

SpecForward == Init /\ [][NextForward]_vars

\* Order of notifications: one producer sends frames with a detection while
\* the handlers of earlier frames are suspended at their saves.
OrderFrameData == [deviceId : {"d1"}, frame : {1, 2}, detections : DetLists]

NextOrder ==
    \/ \E c \in {1, 2} : Connect(c)
    \/ RegisterDevice(1, "d1")
    \/ WatchDevice(2, "d1")
    \/ \E data \in OrderFrameData, s \in Suffixes : LiveStream(1, data, 1000000, s)
    \/ \E i \in 1..MaxTasks : SaveOk(i, 1)
    \/ \E i \in 1..MaxTasks : SaveFail(i)

SpecOrder == Init /\ [][NextOrder]_vars

\* The viewer hook: the events the client receives, with their detections.
Batches == {0, 1, MaxBatch, LogLimit + 1}

NextClient ==
    \/ \E name \in {"stream", "liveStream"}, n \in Batches : ClientStream(name, 1, n)
    \/ \E n \in Batches : ClientLiveDetections(n)
    \/ ClientNewDetection

SpecClient == Init /\ [][NextClient]_vars

\* ============================================================ claims
\* the device names a connection has subscribed to with watchDevice
Watches(c) == {w \in WatchNames : <<"watch", w>> \in rooms[c]}

\* the messages of the last handler that carry a frame
FrameMsgs == {i \in 1..Len(emitted) : emitted[i].frame # 0}

\* the handlers that process an inbound frame
FrameOps == {"liveStream", "video_frame", "httpStream"}
\* the handlers that put the frame in the cache
CachingOps == {"liveStream", "httpStream"}

C6_LiveDelivery ==
    /\ (op.name = "watchDevice" /\ ~Has(latestFrames, op.dev)) => emitted = << >>
    /\ op.name \in FrameOps =>
          \A v \in Open : (op.dev \in Watches(v) \/ "all" \in Watches(v)) =>
              \E i \in 1..Len(emitted) :
                  /\ v \in emitted[i].to
                  /\ emitted[i].dev = op.dev
                  /\ emitted[i].frame = op.frame

\* C6 witness: a socket liveStream frame reached a viewer whose only
\* subscription is 'all'.
C6_Witness ==
    /\ op.name = "liveStream"
    /\ emitted[1].to = {}
    /\ \E v \in emitted[2].to : Watches(v) = {"all"}

\* C9 (as claimed): a frame larger than the 10 MB maximum, on the socket or on
\* POST /api/live/stream, changes neither the cache nor the registry and is
\* not sent to anyone.
C9_OversizedRejected ==
    [][ op'.size > MaxHttpBufferSize =>
           /\ latestFrames' = latestFrames
           /\ activeDevices' = activeDevices
           /\ emitted' = << >>
      ]_vars

\* C10 (as claimed): a frame without device identifier (on the socket: from a
\* connection that registered none) changes neither the cache nor the
\* registry and is not sent to anyone.
C10_MissingDeviceIdRejected ==
    [][ (op'.name \in FrameOps /\ op'.dev = Undefined) =>
           /\ latestFrames' = latestFrames
           /\ activeDevices' = activeDevices
           /\ emitted' = << >>
      ]_vars

\* C4: a registerDevice(d) leaves a session for d whose socketId is the
\* registering connection's, whoever held the session before; the socketId of
\* a session changes by a registerDevice for its device and by nothing else.
C4_SessionSupersession ==
    [][ /\ op'.name = "registerDevice" =>
              /\ Has(activeDevices', op'.dev)
              /\ activeDevices'[op'.dev].socketId = op'.conn
        /\ \A d \in (DOMAIN activeDevices) \cap (DOMAIN activeDevices') :
              activeDevices'[d].socketId # activeDevices[d].socketId =>
                  (op'.name = "registerDevice" /\ op'.dev = d)
      ]_vars

\* C4 witness: connection 2 has registered d1 while connection 1, which
\* registered d1 before, is still open.
C4_Witness ==
    /\ op.name = "registerDevice" /\ op.conn = 2 /\ op.dev = "d1"
    /\ conn[1] = "open" /\ socketDeviceId[1] = "d1"
    /\ activeDevices["d1"].socketId = 2

\* connection c registered device d and another connection, still open, holds
\* d's session now
Superseded(c, d) ==
    /\ conn[c] = "open"
    /\ socketDeviceId[c] = d
    /\ Has(activeDevices, d)
    /\ activeDevices[d].socketId \notin {c, NoSocket}
    /\ conn[activeDevices[d].socketId] = "open"

\* C5 (as claimed): an event from a superseded connection (a frame, a status
\* update, its disconnect) leaves the session of its former device as it was,
\* does not evict the device's cached frame and sends no 'deviceDisconnected'
\* for the device.
C5_StaleHandleInert ==
    [][ \A c \in Conns, d \in DeviceIds :
          (Superseded(c, d) /\ op'.conn = c /\ op'.name # "registerDevice") =>
              /\ Has(activeDevices', d)
              /\ activeDevices'[d] = activeDevices[d]
              /\ Has(latestFrames, d) => Has(latestFrames', d)
              /\ \A i \in 1..Len(emitted') :
                    ~(emitted'[i].event = "deviceDisconnected" /\ emitted'[i].dev = d)
      ]_vars

\* C7: when the liveStream handler suspends at its first save, the frame is
\* already in the cache and has been sent to the watch room and to every
\* connected client; and while a handler is suspended at a save, the handlers
\* of frames, subscriptions and disconnects of the open connections can run.
C7_PersistenceNonBlocking ==
    /\ op.name = "liveStream" =>
          /\ Has(latestFrames, op.dev)
          /\ latestFrames[op.dev].frame = op.frame
          /\ Len(emitted) = 2
          /\ emitted[1].to = InRoom(<<"watch", op.dev>>)
          /\ emitted[1].frame = op.frame
          /\ emitted[2].to = Open
          /\ emitted[2].frame = op.frame
    /\ tasks # << >> =>
          \A c \in Open :
              /\ ENABLED WatchDevice(c, "d1")
              /\ ENABLED Disconnect(c)
              /\ ENABLED VideoFrame(c, [deviceId |-> "d1", frame |-> 1, detections |-> << >>], 1000000)
              /\ ENABLED LiveStream(c, [deviceId |-> "d1", frame |-> 1, detections |-> << >>], 1000000, 1)

\* C7 witness: while the handler of frame 2 is suspended at a save, the later
\* frame 1 has been cached and sent to the viewer.
C7_Witness ==
    /\ Len(tasks) = 1 /\ tasks[1].frame = 2
    /\ op.name = "liveStream" /\ op.frame = 1
    /\ latestFrames["d1"].frame = 1
    /\ emitted[1].to = {2}

\* C8 (as claimed): once no save is pending and none has failed, every
\* detection of the frame last accepted for a device is in the store as a
\* record with the device's identifier and the detection's severity.
C8_EventualPersistence ==
    (/\ op.name \in {"liveStream", "httpStream", "saveOk"}
     /\ op.dev \in DeviceIds
     /\ tasks = << >>
     /\ Has(latestFrames, op.dev)) =>
        \A i \in 1..Len(latestFrames[op.dev].detections) :
            LET det == latestFrames[op.dev].detections[i]
            IN  \E r \in store :
                    /\ r.deviceId = op.dev
                    /\ r.type = det.type
                    /\ det.severity # Undefined => r.severity = det.severity

\* the requests that list the active devices
ListingOps == {"getActiveDevices", "httpStatus", "httpDevices"}

\* C11 (as claimed): the list answered to a list-active-devices request (socket
\* getActiveDevices, GET /api/live/status, GET /api/live/devices) contains no
\* session whose lastSeen is a liveness window (30 s) or more in the past.
C11_LivenessWindowing ==
    op.name \in ListingOps =>
        \A e \in response : (now - e.lastSeen) < LivenessWindow

\* C12: a list-active-devices request leaves the registry and the frame cache
\* as they were and sends its answer to no connection but the requester; and
\* a session, stale or not, leaves the registry by a disconnect and by nothing
\* else.
C12_ListingPureSnapshot ==
    [][ /\ op'.name \in ListingOps =>
              /\ activeDevices' = activeDevices
              /\ latestFrames' = latestFrames
              /\ \A i \in 1..Len(emitted') : emitted'[i].to \subseteq {op'.conn}
        /\ \A k \in DOMAIN activeDevices :
              ~Has(activeDevices', k) => op'.name = "disconnect"
      ]_vars

\* C12 witness: a viewer asked for the list over the socket while another
\* connection was open and the session of d1 was stale; the session is listed
\* and still in the registry.
C12_Witness ==
    /\ op.name = "getActiveDevices" /\ op.conn = 2
    /\ Open = {1, 2}
    /\ Has(activeDevices, "d1")
    /\ ~IsActive(activeDevices["d1"])
    /\ \E e \in response : e.deviceId = "d1"

C14_ViewerDisconnect ==
    [][ /\ (op'.name = "disconnect" /\ op'.dev = Undefined) =>
              /\ activeDevices' = activeDevices
              /\ latestFrames' = latestFrames
              /\ emitted' = << >>
              /\ rooms'[op'.conn] = {}
        /\ \A i \in 1..Len(emitted') : \A v \in emitted'[i].to : conn'[v] = "open"
      ]_vars

\* C14 witness: the viewer of d1 has disconnected while d1 has a session, a
\* cached frame and a detection save in progress.
C14_Witness ==
    /\ op.name = "disconnect" /\ op.conn = 2 /\ op.dev = Undefined
    /\ Has(activeDevices, "d1") /\ Has(latestFrames, "d1")
    /\ tasks # << >>
    /\ conn[1] = "open"

\* C15 (as claimed): one POST /api/live/stream with a frame has the effect of
\* one socket 'liveStream' with that frame: the registry changes as by a touch
\* (no session is created), the frame is the cached one, the same messages go
\* to the same connections under the same events, and the frame's detections
\* are handed to the persistence loop.
C15_TransportParity ==
    [][ op'.name = "httpStream" =>
           /\ activeDevices' = Touch(activeDevices, op'.dev)
           /\ latestFrames'[op'.dev].frame = op'.frame
           /\ emitted' = LiveStreamFanOut(op'.dev, op'.frame)
           /\ Len(latestFrames'[op'.dev].detections) > 0 =>
                  /\ Len(tasks') = Len(tasks) + 1
                  /\ tasks'[Len(tasks')].frame = op'.frame
      ]_vars

\* the events under which viewers are sent frames, detections and status
ViewerEvents == {"liveStream", "stream", "liveDetections", "deviceStatus"}

\* C16 (as claimed): every frame, detection and status notification that a
\* handler sends to the connected clients is also written, by that handler, to
\* every open GET /api/live/events/:deviceId stream whose parameter is the
\* notification's device or 'all'.
C16_PulledEventStream ==
    \A s \in DOMAIN streams : \A i \in 1..Len(emitted) :
        (/\ emitted[i].event \in ViewerEvents
         /\ emitted[i].to # {}
         /\ SseFilter(streams[s], emitted[i].dev)) =>
            \E w \in written : w.stream = s /\ w.dev = emitted[i].dev

\* C17 (as claimed): of the messages a handler sends for one accepted frame,
\* at most one that carries the frame reaches any one connected client,
\* whatever the client subscribed to.
C17_AtMostOnceLiveDelivery ==
    op.name \in FrameOps =>
        \A v \in Open :
            Cardinality({i \in FrameMsgs :
                            /\ emitted[i].event \in {"liveStream", "stream"}
                            /\ emitted[i].frame = op.frame
                            /\ v \in emitted[i].to}) <= 1

\* C18 (as claimed): a frame (socket liveStream, POST /api/live/stream) or a
\* deviceStatusUpdate for a device identifier without session leaves the
\* registry as it was; the frame is cached under the identifier and sent.
C18_FrameWithoutSession ==
    [][ (/\ op'.name \in CachingOps \cup {"deviceStatusUpdate"}
         /\ ~Has(activeDevices, op'.dev)) =>
            /\ activeDevices' = activeDevices
            /\ op'.name \in CachingOps =>
                  /\ Has(latestFrames', op'.dev)
                  /\ latestFrames'[op'.dev].frame = op'.frame
                  /\ emitted' # << >>
      ]_vars

\* the connection has registered a device / has subscribed to one
IsProducer(c) == \E d \in DeviceIds : <<"device", d>> \in rooms[c]
IsViewer(c) == Watches(c) # {}

\* C19 (as claimed): no connection is both a producer and a viewer, and a
\* registerDevice from a connection that has subscribed, or a watchDevice
\* from a connection that has registered, changes nothing and sends nothing.
C19_FixedRole ==
    [][ /\ \A c \in Conns : ~(IsProducer(c)' /\ IsViewer(c)')
        /\ \A c \in Conns :
              (\/ (IsViewer(c) /\ op'.name = "registerDevice" /\ op'.conn = c)
               \/ (IsProducer(c) /\ op'.name = "watchDevice" /\ op'.conn = c)) =>
                  /\ rooms' = rooms
                  /\ activeDevices' = activeDevices
                  /\ emitted' = << >>
      ]_vars

\* C20: a registerDevice(d), whether d had a session or not, sends exactly
\* one message: 'deviceConnected' carrying d, to every connected client, the
\* registering one included; and the registry holds the new session of d when
\* the message is sent.
C20_DeviceConnectedOnRegister ==
    op.name = "registerDevice" =>
        /\ Len(emitted) = 1
        /\ emitted[1].event = "deviceConnected"
        /\ emitted[1].dev = op.dev
        /\ emitted[1].to = Open
        /\ op.conn \in emitted[1].to
        /\ Has(activeDevices, op.dev)
        /\ activeDevices[op.dev].socketId = op.conn
        /\ activeDevices[op.dev].lastSeen = now

\* C20 witness: connection 2 re-registered d1, which connection 1 had
\* registered, and both connections were sent the notification.
C20_Witness ==
    /\ op.name = "registerDevice" /\ op.conn = 2 /\ op.dev = "d1"
    /\ socketDeviceId[1] = "d1"
    /\ emitted[1].to = {1, 2}
    /\ activeDevices["d1"].socketId = 2

\* the detection a suspended handler is saving
Saving(t) == t.dets[t.idx]

\* C21 (as claimed): every stored record has a category of the taxonomy, a
\* severity and a confidence; and no detection is lost for its label: the
\* record a handler is about to save has the detection's severity or 'medium',
\* the detection's confidence or 0, and passes the store's validation, a
\* synonym label having been replaced by its taxonomy entry and any other
\* label normalised.
C21_RecordNormalisation ==
    /\ \A r \in store : Valid(r)
    /\ \A i \in 1..Len(tasks) :
          LET det == Saving(tasks[i])
              rec == tasks[i].rec
          IN  /\ rec.severity = (IF det.severity = Undefined THEN "medium" ELSE det.severity)
              /\ rec.confidence = (IF det.confidence = NoConfidence THEN 0 ELSE det.confidence)
              /\ det.type \in DOMAIN TypeMapping => rec.type = TypeMapping[det.type]
              /\ Valid(rec)

\* C22 (as claimed): the identifier generated for a detection differs from
\* the identifier of every stored record and of every other record awaiting
\* its save, so the unique index on detectionId refuses no save.
C22_IdentifierUniqueness ==
    /\ \A i \in 1..Len(tasks) : tasks[i].rec.detectionId \notin StoredIds
    /\ \A i, j \in 1..Len(tasks) :
          i # j => tasks[i].rec.detectionId # tasks[j].rec.detectionId

\* the handlers that end one `await detectionRecord.save()`
SaveOps == {"saveOk", "saveFail"}

\* C23: a save that fails changes neither the store, the frame cache nor the
\* registry, sends nothing, and ends its handler, so neither the failed
\* detection nor the rest of its frame is submitted later; every save that
\* ends leaves fewer writes to be done, and the store changes by a successful
\* save only, one record at a time.
C23_NoRetryNoRollback ==
    [][ /\ op'.name = "saveFail" =>
              /\ store' = store
              /\ latestFrames' = latestFrames
              /\ activeDevices' = activeDevices
              /\ emitted' = << >>
              /\ Len(tasks') = Len(tasks) - 1
        /\ op'.name \in SaveOps => PendingWrites(tasks') < PendingWrites(tasks)
        /\ store' # store =>
              /\ op'.name = "saveOk"
              /\ Cardinality(store') = Cardinality(store) + 1
      ]_vars

\* C23 witness: the save of the second detection of a frame has failed after
\* the first was stored; the frame is still the cached one.
C23_Witness ==
    /\ op.name = "saveFail"
    /\ tasks = << >>
    /\ Cardinality(store) = 1
    /\ Has(latestFrames, "d1")
    /\ Len(latestFrames["d1"].detections) = 2
    /\ latestFrames["d1"].detections[2].type = "Rut"

\* the string without its ending t, when it ends with t
Strip(str, t) == IF EndsWith(str, t) THEN SubSeq(str, 1, Len(str) - Len(t)) ELSE str

\* the string ends with '?appName' or with '?appName='
HasSuffix(str) == EndsWith(str, AppName) \/ EndsWith(str, AppNameEq)

\* C24 (as claimed): sanitizeURI returns the URI without its trailing
\* '?appName' or '?appName=' and removes nothing else, returns a URI without
\* such an ending unchanged, and returns its own result unchanged; connectDB
\* connects to the URI that sanitizeURI returns.
C24_SanitizeURI ==
    /\ Len(mongo.outs) >= 1 =>
          /\ EndsWith(mongo.env, AppName) => mongo.outs[1] = Strip(mongo.env, AppName)
          /\ EndsWith(mongo.env, AppNameEq) => mongo.outs[1] = Strip(mongo.env, AppNameEq)
          /\ ~HasSuffix(mongo.env) => mongo.outs[1] = mongo.env
    /\ \A i \in 2..Len(mongo.outs) : mongo.outs[i] = mongo.outs[i - 1]
    /\ \A i \in 1..Len(mongo.connected) :
          mongo.connected[i].uri = sanitizeURI(mongo.env)

\* C24 (amended): sanitizeURI removes one trailing '?appName', if there is
\* one, and then one trailing '?appName=', if there is one, so its result may
\* end with '?appName' again and may have lost both endings; it returns a URI
\* that ends with neither unchanged, and a second call changes nothing exactly
\* when the first result ends with neither. connectDB as first written
\* connects to the URI sanitizeURI returns; connectDB as rewritten does so
\* when the URI has at most one '@' or does not start with 'mongodb', and
\* does not end with '?appName=?appName'.
C24_SanitizeURIOnePass ==
    /\ \A i \in 1..Len(mongo.outs) :
          LET arg == IF i = 1 THEN mongo.env ELSE mongo.outs[i - 1]
          IN  /\ mongo.outs[i] = Strip(Strip(arg, AppName), AppNameEq)
              /\ ~HasSuffix(arg) <=> mongo.outs[i] = arg
    /\ \A i \in 1..Len(mongo.connected) :
          LET c == mongo.connected[i]
          IN  /\ c.by = "connectDB" => c.uri = sanitizeURI(mongo.env)
              /\ (/\ c.by = "connectDBEncoded"
                  /\ PartsLength(mongo.env) <= 2 \/ ~StartsWith(mongo.env, MongoDb)
                  /\ ~EndsWith(mongo.env, AppNameEq \o AppName)) =>
                     c.uri = sanitizeURI(mongo.env)

\* C24 witness: '?appName?appName=' was sanitised twice, the first call
\* leaving '?appName' and the second the empty string, and connectDB
\* connected to '?appName'.
C24_Witness ==
    /\ mongo.env = AppName \o AppNameEq
    /\ mongo.outs = << AppName, << >> >>
    /\ Len(mongo.connected) = 1
    /\ mongo.connected[1].uri = AppName

\* C25: the step of a liveStream handler that ends at its first await (or at
\* its end) has touched the session, put the frame in the cache and sent the
\* frame; a handler is suspended by such a step only; and the steps that
\* resume a suspended handler (a save that ends) neither change the registry
\* or the cache nor send a frame. So no other handler runs between touch, put
\* and fan-out.
C25_AtomicRelayStep ==
    [][ /\ op'.name = "liveStream" =>
              /\ Has(activeDevices, op'.dev) =>
                     /\ Has(activeDevices', op'.dev)
                     /\ activeDevices'[op'.dev].lastSeen = now
              /\ Has(latestFrames', op'.dev)
              /\ latestFrames'[op'.dev].frame = op'.frame
              /\ Len(emitted') = 2
              /\ \A i \in 1..2 : emitted'[i].frame = op'.frame /\ emitted'[i].dev = op'.dev
        /\ Len(tasks') > Len(tasks) => op'.name = "liveStream"
        /\ op'.name \in SaveOps =>
              /\ activeDevices' = activeDevices
              /\ latestFrames' = latestFrames
              /\ \A i \in 1..Len(emitted') : emitted'[i].event \notin {"liveStream", "stream"}
      ]_vars

\* C25 witness: while the handler of a frame of d1 is suspended at its save,
\* the producer has disconnected and the viewer has subscribed: the session
\* and the cached frame are gone and the save is still to end.
C25_Witness ==
    /\ Len(tasks) = 1 /\ tasks[1].dev = "d1"
    /\ op.name = "watchDevice" /\ op.conn = 2
    /\ conn[1] = "closed"
    /\ ~Has(latestFrames, "d1") /\ ~Has(activeDevices, "d1")

\* the events that carry a frame to a viewer
FrameEvents == {"liveStream", "stream"}

\* C26: a frame is sent to the viewers by the step that handles its arrival,
\* whether or not a handler of an earlier frame is still suspended at a save:
\* every frame message a step sends carries the frame that step handles (or,
\* for a watchDevice, the frame cached last), and the step of a liveStream
\* sends its frame to every connection in the watch room and to every
\* connected client. So two frames of a device that arrive on one socket are
\* sent to each viewer in their order of arrival.
C26_PerDeviceOrder ==
    [][ /\ \A i \in 1..Len(emitted') :
              emitted'[i].event \in FrameEvents =>
                  \/ op'.name \in FrameOps /\ emitted'[i].frame = op'.frame
                  \/ /\ op'.name = "watchDevice"
                     /\ Has(latestFrames, op'.dev)
                     /\ emitted'[i].frame = latestFrames[op'.dev].frame
        /\ op'.name = "liveStream" =>
              /\ \E i \in 1..Len(emitted') :
                    /\ emitted'[i].event = "liveStream"
                    /\ emitted'[i].to = InRoom(<<"watch", op'.dev>>)
                    /\ emitted'[i].frame = op'.frame
              /\ \E i \in 1..Len(emitted') :
                    /\ emitted'[i].event = "stream"
                    /\ emitted'[i].to = Open
                    /\ emitted'[i].frame = op'.frame
      ]_vars

\* C26 witness: frame 2 of d1 has been sent to the viewer while the handler
\* of frame 1, which arrived before, is suspended at its save.
C26_Witness ==
    /\ Len(tasks) = 1 /\ tasks[1].frame = 1 /\ tasks[1].dev = "d1"
    /\ op.name = "liveStream" /\ op.frame = 2 /\ op.dev = "d1"
    /\ emitted[1].to = {2} /\ emitted[1].frame = 2

\* C27: a 'liveDetections' that carries dbIds is emitted by the step of a
\* successful save that leaves its handler nothing more to save; it carries
\* the frame's detections and one dbId for each, all different and all
\* identifiers of stored records; and a save that fails emits nothing.
C27_DurablyRecordedNotification ==
    /\ \A i \in 1..Len(emitted) :
          (emitted[i].event = "liveDetections" /\ emitted[i].dbIds # << >>) =>
              /\ op.name = "saveOk"
              /\ op.frame = emitted[i].frame
              /\ Len(emitted[i].dbIds) = Len(emitted[i].detections)
              /\ \A j \in 1..Len(emitted[i].dbIds) : emitted[i].dbIds[j] \in StoredIds
              /\ \A j, k \in 1..Len(emitted[i].dbIds) :
                    j # k => emitted[i].dbIds[j] # emitted[i].dbIds[k]
              /\ \A j \in 1..Len(tasks) :
                    ~(tasks[j].frame = op.frame /\ tasks[j].ids = emitted[i].dbIds)
    /\ op.name = "saveFail" => emitted = << >>

\* C27 witness: the second save of a frame with two detections has ended and
\* the viewer of d1 is sent 'liveDetections' with two dbIds.
C27_Witness ==
    /\ op.name = "saveOk"
    /\ Len(emitted) = 1
    /\ emitted[1].to = {2}
    /\ Len(emitted[1].dbIds) = 2
    /\ Cardinality(store) = 2

\* the handlers of the inbound messages of a device
InboundOps == {"registerDevice", "liveStream", "video_frame", "deviceStatusUpdate",
               "httpStream"}

\* C28 (as claimed): every inbound message for a device that has a session
\* (registerDevice, liveStream, video_frame, deviceStatusUpdate, POST
\* /api/live/stream) leaves the session's lastSeen at the time of the message.
C28_LastSeenFreshness ==
    [][ (op'.name \in InboundOps /\ Has(activeDevices, op'.dev)) =>
            /\ Has(activeDevices', op'.dev)
            /\ activeDevices'[op'.dev].lastSeen = now
      ]_vars

\* C29: a deviceStatusUpdate for a device with a session sets that session's
\* lastSeen to the time of the message and its status to the message's,
\* leaves the session's other fields, every other session and the frame cache
\* as they were, and sends one message, 'deviceStatus', to every connected
\* client; for a device without session it changes neither registry nor cache.
C29_TelemetryOnly ==
    [][ op'.name = "deviceStatusUpdate" =>
           /\ latestFrames' = latestFrames
           /\ Len(emitted') = 1
           /\ emitted'[1].event = "deviceStatus"
           /\ emitted'[1].to = Open
           /\ IF Has(activeDevices, op'.dev)
              THEN \E data \in FreshStatusData :
                      activeDevices' = [activeDevices EXCEPT ![op'.dev].lastSeen = now,
                                                             ![op'.dev].status = data.status]
              ELSE activeDevices' = activeDevices
      ]_vars

\* C29 witness: a status update has refreshed the stale session of d1 while
\* d1's cached frame and the session of d2 are older.
C29_Witness ==
    /\ op.name = "deviceStatusUpdate" /\ op.dev = "d1"
    /\ now > 0
    /\ Has(activeDevices, "d1")
    /\ activeDevices["d1"].lastSeen = now
    /\ activeDevices["d1"].connectedAt < now
    /\ activeDevices["d1"].status = "s1"
    /\ Has(latestFrames, "d1") /\ latestFrames["d1"].receivedAt < now
    /\ Has(activeDevices, "d2") /\ activeDevices["d2"].lastSeen < now

\* C30 (as claimed): every key of latestFrames is a key of activeDevices.
C30_CacheBound ==
    \A k \in DOMAIN latestFrames : Has(activeDevices, k)

\* the operations of the forward route
ForwardOps == {"forward", "forwardTicketSaved", "forwardTicketFailed",
               "forwardDetectionSaved", "forwardDetectionFailed"}

\* C31: a detection enters the store with forwarded = false; the flag of a
\* stored detection becomes true only when the detection.save() of a forward
\* request resolves, and then a ticket referencing the detection is stored;
\* a flag that is true stays true; a forward request that finds the flag
\* true is answered 400, stores no ticket, changes no record and leaves
\* nothing suspended.
C31_OneWayForwarded ==
    [][ /\ \A q \in store' : q.detectionId \notin StoredIds => ~q.forwarded
        /\ \A r \in store : r.forwarded => r \in store'
        /\ \A q \in store' :
              (q.forwarded /\ \E r \in store : r.detectionId = q.detectionId /\ ~r.forwarded) =>
                 /\ op'.name = "forwardDetectionSaved"
                 /\ op'.id = q.detectionId
                 /\ \E t \in tickets' : t.potholeDetectionId = q.detectionId
        /\ op'.name # "forwardDetectionSaved" => store \subseteq store'
        /\ (op'.name = "forward" /\ \E r \in store : r.detectionId = op'.id /\ r.forwarded) =>
              /\ response' = ForwardResponse(400, op'.id)
              /\ tickets' = tickets
              /\ store' = store
              /\ forwards' = forwards
      ]_vars

\* C31 witness: a second forward request for a detection that a first
\* request forwarded has been answered 400; one ticket references it.
C31_Witness ==
    /\ op.name = "forward"
    /\ response = ForwardResponse(400, op.id)
    /\ \E r \in store : r.detectionId = op.id /\ r.forwarded
    /\ Cardinality({t \in tickets : t.potholeDetectionId = op.id}) = 1
    /\ forwards = << >>

\* C32 (as claimed): at most one stored ticket references a detection, and a
\* stored ticket references a detection only if that detection is stored
\* with forwarded = true.
C32_SingleTicket ==
    /\ \A t1, t2 \in tickets : t1.potholeDetectionId = t2.potholeDetectionId => t1 = t2
    /\ \A t \in tickets : \E r \in store : r.detectionId = t.potholeDetectionId /\ r.forwarded

\* C33 (as claimed): no session carries the socketId of a connection that
\* has disconnected.
C33_NoOrphanSessions ==
    \A d \in DOMAIN activeDevices :
        activeDevices[d].socketId # NoSocket => conn[activeDevices[d].socketId] # "closed"

\* the handler has reached its last save, and that save can succeed
Persistable(t, stored) ==
    /\ t.idx = Len(t.dets)
    /\ Valid(t.rec)
    /\ t.rec.detectionId \notin {r.detectionId : r \in stored}

\* C34 (as claimed): when the handler of a frame emits 'liveDetections', no
\* handler of a frame of the same device that arrived before it is still
\* suspended at a save that can succeed; so the notifications of two frames
\* that both persist are emitted in the frames' order of arrival.
C34_ArrivalOrder ==
    [][ (op'.name = "saveOk" /\ emitted' # << >>) =>
           \A i \in 1..Len(tasks) :
              (tasks' = RemoveAt(tasks, i) /\ tasks[i].frame = op'.frame) =>
                 \A j \in 1..(i - 1) :
                    ~(tasks[j].dev = tasks[i].dev /\ Persistable(tasks[j], store'))
      ]_vars

\* C34 (amended): the 'liveDetections' of a frame is emitted by the step in
\* which the last save of that frame's handler resolves, and by no earlier
\* save of the handler, whatever other handlers of the device are suspended:
\* the notifications of a device follow the order in which the handlers end
\* their saves.
C34_NotificationOrder ==
    [][ op'.name = "saveOk" =>
           \E i \in 1..Len(tasks) :
              /\ tasks[i].frame = op'.frame /\ tasks[i].dev = op'.dev
              /\ IF tasks[i].idx = Len(tasks[i].dets)
                 THEN /\ tasks' = RemoveAt(tasks, i)
                      /\ Len(emitted') = 1
                      /\ emitted'[1].event = "liveDetections"
                      /\ emitted'[1].frame = tasks[i].frame
                      /\ emitted'[1].dbIds = Append(tasks[i].ids, tasks[i].rec.detectionId)
                 ELSE /\ emitted' = << >>
                      /\ Len(tasks') = Len(tasks)
                      /\ tasks'[i].idx = tasks[i].idx + 1
                      /\ tasks'[i].frame = tasks[i].frame
      ]_vars

\* C34 witness: frame 1 of d1 arrived before frame 2, which is the frame
\* cached last; the save of frame 2 has resolved first and its
\* 'liveDetections' is sent to the viewer while the handler of frame 1 is
\* suspended at a save that can succeed.
C34_Witness ==
    /\ Len(tasks) = 1
    /\ tasks[1].frame = 1 /\ tasks[1].dev = "d1"
    /\ Persistable(tasks[1], store)
    /\ Has(latestFrames, "d1")
    /\ latestFrames["d1"].frame = 2 /\ latestFrames["d1"].detections # << >>
    /\ Cardinality(store) = 1
    /\ op.name = "saveOk" /\ op.frame = 2 /\ op.dev = "d1"
    /\ Len(emitted) = 1
    /\ emitted[1].event = "liveDetections" /\ emitted[1].frame = 2
    /\ emitted[1].to = {2}

\* C35 (as claimed): a save that fails leaves the store as it was, and its
\* handler goes on to submit the next detection of the frame when there is
\* one; it ends only after the frame's last detection.
C35_PerDetectionIndependence ==
    [][ op'.name = "saveFail" =>
           /\ store' = store
           /\ \E i \in 1..Len(tasks) :
                 /\ tasks[i].frame = op'.frame /\ tasks[i].dev = op'.dev
                 /\ IF tasks[i].idx < Len(tasks[i].dets)
                    THEN /\ Len(tasks') = Len(tasks)
                         /\ tasks'[i].frame = tasks[i].frame
                         /\ tasks'[i].idx = tasks[i].idx + 1
                    ELSE tasks' = RemoveAt(tasks, i)
      ]_vars

\* the notifications about a device that viewers receive
DeviceNotices == FrameEvents \cup {"liveDetections", "deviceStatus"}

\* the step has broadcast 'deviceDisconnected' for device d
Disconnected(msgs, d) ==
    \E i \in 1..Len(msgs) : msgs[i].event = "deviceDisconnected" /\ msgs[i].dev = d

\* C36 (as claimed): the step that follows the broadcast of
\* 'deviceDisconnected' for a device sends no viewer a frame, 'liveDetections'
\* or 'deviceStatus' of that device, unless it handles a new message for the
\* device.
C36_NothingAfterDisconnect ==
    [][ \A d \in DeviceIds :
           (/\ op.name = "disconnect"
            /\ Disconnected(emitted, d)
            /\ ~(op'.name \in InboundOps /\ op'.dev = d)) =>
               \A j \in 1..Len(emitted') :
                  ~(/\ emitted'[j].event \in DeviceNotices
                    /\ emitted'[j].dev = d
                    /\ emitted'[j].to # {})
      ]_vars

\* C36 (amended): a frame or a 'deviceStatus' of a device is sent by the step
\* that handles a message for that device, or by a watchDevice from the
\* device's cached frame; the broadcast of 'deviceDisconnected' for a device
\* leaves the device without cached frame, and a frame cache entry appears
\* only in a step that handles a message for its device. So after the
\* broadcast no frame and no 'deviceStatus' of the device is sent until a new
\* message for it arrives. 'liveDetections' is sent by a POST
\* /api/live/stream for the device or by the step that ends the last save of
\* a frame, the latter also after the broadcast.
C36_QuietAfterDisconnect ==
    [][ /\ \A j \in 1..Len(emitted') :
              /\ emitted'[j].event \in FrameEvents \cup {"deviceStatus"} =>
                    \/ op'.name \in InboundOps /\ op'.dev = emitted'[j].dev
                    \/ /\ op'.name = "watchDevice"
                       /\ op'.dev = emitted'[j].dev
                       /\ Has(latestFrames, emitted'[j].dev)
              /\ emitted'[j].event = "liveDetections" =>
                    \/ op'.name = "saveOk"
                    \/ op'.name = "httpStream" /\ op'.dev = emitted'[j].dev
        /\ \A d \in DeviceIds :
              /\ (op'.name = "disconnect" /\ Disconnected(emitted', d)) =>
                    ~Has(latestFrames', d)
              /\ (~Has(latestFrames, d) /\ Has(latestFrames', d)) =>
                    op'.name \in InboundOps /\ op'.dev = d
      ]_vars

\* C36 witness: the producer of d1 has disconnected, d1 has neither session
\* nor cached frame, and the handler suspended before the disconnect has
\* ended its save and sent 'liveDetections' of d1 to the viewer.
C36_Witness ==
    /\ conn[1] = "closed"
    /\ ~Has(activeDevices, "d1") /\ ~Has(latestFrames, "d1")
    /\ op.name = "saveOk" /\ op.dev = "d1"
    /\ Len(emitted) = 1
    /\ emitted[1].event = "liveDetections"
    /\ emitted[1].to = {2}

\* the entry of key k is the same in the maps m and n
Same(m, n, k) == (Has(m, k) <=> Has(n, k)) /\ (Has(m, k) => m[k] = n[k])

\* the handlers of the messages that write the registry or the frame cache
WritingOps == {"registerDevice", "liveStream", "deviceStatusUpdate"}

\* C37 (as claimed): a liveStream or deviceStatusUpdate received on a
\* connection registered as a device leaves the session and the cached frame
\* of every other device as they were.
C37_ConnectionIsolation ==
    [][ (op'.name \in {"liveStream", "deviceStatusUpdate"}
            /\ socketDeviceId[op'.conn] \in DeviceIds) =>
           \A d \in DeviceIds \ {socketDeviceId[op'.conn]} :
              Same(activeDevices, activeDevices', d) /\ Same(latestFrames, latestFrames', d)
      ]_vars

\* C37 (amended): a registerDevice, liveStream or deviceStatusUpdate changes
\* the session and the cached frame of one device at most, the device it
\* resolves to: the identifier its body names or, when the body names none,
\* the identifier registered on its connection.
C37_ProducerIsolation ==
    [][ op'.name \in WritingOps =>
           \A d \in DeviceIds \ {op'.dev} :
              Same(activeDevices, activeDevices', d) /\ Same(latestFrames, latestFrames', d)
      ]_vars

\* C37 witness: connection 1, registered as d1, has sent a status update
\* whose body names d2; the session of d2, registered by connection 2,
\* carries that status, and the session of d1 carries none.
C37_Witness ==
    /\ op.name = "deviceStatusUpdate" /\ op.conn = 1 /\ op.dev = "d2"
    /\ socketDeviceId[1] = "d1" /\ socketDeviceId[2] = "d2"
    /\ Has(activeDevices, "d2")
    /\ activeDevices["d2"].socketId = 2
    /\ activeDevices["d2"].status = "s1"
    /\ Has(activeDevices, "d1")
    /\ activeDevices["d1"].status = NoStatus

\* the events the three listeners of an event stream write
SseRelayed == {"liveStream", "detection", "status"}

\* C38: an event of a device written to an event stream opened for a
\* specific device is an event of that device; whatever a step writes, it
\* writes to a stream that is open after the step; the close of a request
\* removes its stream, and only its stream, from the open ones and writes
\* nothing.
C38_EventStreamFilterAndCleanup ==
    [][ /\ \A w \in written' :
              /\ Has(streams', w.stream)
              /\ (w.event \in SseRelayed /\ streams'[w.stream] \in DeviceIds) =>
                    w.dev = streams'[w.stream]
        /\ op'.name = "closeEvents" =>
              /\ written' = {}
              /\ \E s \in DOMAIN streams :
                    /\ DOMAIN streams' = (DOMAIN streams) \ {s}
                    /\ \A x \in DOMAIN streams' : streams'[x] = streams[x]
      ]_vars

\* C38 witness: the event stream 1, opened for d2, is open and the stream 2
\* is not; a frame of d1 has been relayed to the Socket.IO clients and
\* nothing is written to either stream.
C38_Witness ==
    /\ Has(streams, 1) /\ streams[1] = "d2"
    /\ ~Has(streams, 2)
    /\ op.name = "liveStream" /\ op.dev = "d1"
    /\ Len(emitted) > 0
    /\ written = {}

\* C39: after every event of the hook the list has at most LogLimit entries;
\* the entries of the event come first, in the order of its detections; behind
\* them the entries the list had before keep their order, and the ones that
\* no longer fit are cut from the end of the list, where the oldest are: the
\* list runs from the newest event to the oldest.
C39_ClientLogBound ==
    [][ op'.name \in ClientOps =>
           LET n == IF op'.name \in {"stream", "liveStream", "liveDetections"}
                    THEN op'.count ELSE 1
               kept == Len(liveDetections') - Min(n, LogLimit)
           IN  /\ Len(liveDetections') <= LogLimit
               /\ Len(liveDetections') = Min(n + Len(liveDetections), LogLimit)
               /\ \A i \in 1..Min(n, LogLimit) :
                     /\ liveDetections'[i].idx = i
                     /\ \A j \in 1..Len(liveDetections) :
                           liveDetections'[i].event > liveDetections[j].event
               /\ \A i \in 1..kept : liveDetections'[Min(n, LogLimit) + i] = liveDetections[i]
               /\ \A i, j \in 1..Len(liveDetections') :
                     i < j => liveDetections'[i].event >= liveDetections'[j].event
      ]_vars

\* C39 witness: a 'liveDetections' with one detection has been put in front
\* of a full list: the list is still LogLimit long, it starts with the entry
\* of the event, and entries of the oldest event are at its end.
C39_Witness ==
    /\ op.name = "liveDetections" /\ op.count = 1
    /\ Len(liveDetections) = LogLimit
    /\ liveDetections[1].event = 3 /\ liveDetections[1].idx = 1
    /\ liveDetections[2].event = 2
    /\ liveDetections[LogLimit].event = 1
    /\ liveDetections[LogLimit].idx < MaxBatch

====
